---- MODULE Spec2Model ----
(***************************************************************************)
(* State-machine model of the PostList component (the view-state store,    *)
(* the two-fetch load, the use-debounce timer, the derived list pipeline   *)
(* and the local-storage-backed favorites).                                *)
(*                                                                         *)
(* Text is a sequence of one-character strings, so that toLowerCase,       *)
(* includes, toString, JSON.stringify and JSON.parse are computed, not     *)
(* assumed.  null/undefined values are the empty sequence <<>> and a       *)
(* present value v is <<v>>.                                               *)
(***************************************************************************)
EXTENDS Integers, Sequences, FiniteSets, TLC

VARIABLES
  state,            \* the useState aggregate of PostList
  localStorage,     \* browser storage: a set of <<key, text>> pairs
  debouncedSearch,  \* value returned by useDebounce(state.searchQuery, 300)
  debouncePending,  \* TRUE while the 300 ms debounce timer is armed
  fetch,            \* the two axios.get promises and the payload of the posts one
  render,           \* last committed render: the state the handlers close over + useMemo result
  lastToggle        \* history: <<>>, or <<r>> recording the latest toggleFavorite call and the one before it

vars == <<state, localStorage, debouncedSearch, debouncePending, fetch, render, lastToggle>>

----------------------------------------------------------------------------
(* Bounds of the model *)

\* number of posts in the full server response of Spec
NumPosts == 13
\* longest arbitrary post list drawn in SpecPipeline
MaxListLen == 2

(* Program constants *)
postsPerPage == 12

----------------------------------------------------------------------------
(* Text helpers: JavaScript string and array primitives *)

Min(a, b) == IF a < b THEN a ELSE b
Max(a, b) == IF a > b THEN a ELSE b

Range(seq) == {seq[i] : i \in 1..Len(seq)}

UpperChars == <<"A","B","C","D","E","F","G","H","I","J","K","L","M",
                "N","O","P","Q","R","S","T","U","V","W","X","Y","Z">>
LowerChars == <<"a","b","c","d","e","f","g","h","i","j","k","l","m",
                "n","o","p","q","r","s","t","u","v","w","x","y","z">>
DigitChars == <<"0","1","2","3","4","5","6","7","8","9">>

IndexIn(seq, x) == CHOOSE i \in 1..Len(seq) : seq[i] = x

UpperSet == Range(UpperChars)
LowerSet == Range(LowerChars)
LowerOf == [c \in UpperSet |-> LowerChars[IndexIn(UpperChars, c)]]

ToLowerChar(c) == IF c \in UpperSet THEN LowerOf[c] ELSE c

\* String.prototype.toLowerCase
toLowerCase(str) == [i \in 1..Len(str) |-> ToLowerChar(str[i])]

\* String.prototype.includes
includes(hay, needle) ==
  \E i \in 0..(Len(hay) - Len(needle)) :
     SubSeq(hay, i + 1, i + Len(needle)) = needle

\* Number.prototype.toString for a non-negative integer
RECURSIVE toString(_)
toString(n) ==
  IF n < 10 THEN <<DigitChars[n + 1]>>
  ELSE toString(n \div 10) \o <<DigitChars[(n % 10) + 1]>>

\* slice with the start index one too far
sliceSkippingFirst(arr, start, end) ==
  LET len == Len(arr)
      s   == Min(start, len)
      e   == Min(end, len)
  IN  IF s >= e THEN <<>> ELSE SubSeq(arr, s + 2, e)

\* Array.prototype.slice(start, end)
slice(arr, start, end) ==
  LET len == Len(arr)
      s   == IF start < 0 THEN Max(len + start, 0) ELSE Min(start, len)
      e   == IF end < 0 THEN Max(len + end, 0) ELSE Min(end, len)
  IN  IF s >= e THEN <<>> ELSE SubSeq(arr, s + 1, e)

\* Array.prototype.includes
arrayIncludes(arr, x) == \E i \in 1..Len(arr) : arr[i] = x

\* Math.floor(a / b) + 1 in place of Math.ceil(a / b)
MathFloorPlusOne(a, b) == (a \div b) + 1

\* Math.ceil(a / b) for a >= 0, b > 0
MathCeilDiv(a, b) == IF a % b = 0 THEN a \div b ELSE (a \div b) + 1

----------------------------------------------------------------------------
(* JSON.stringify / JSON.parse of an array of non-negative integers *)

RECURSIVE JoinNumbers(_)
JoinNumbers(list) ==
  IF list = <<>> THEN <<>>
  ELSE IF Len(list) = 1 THEN toString(list[1])
  ELSE toString(list[1]) \o <<",">> \o JoinNumbers(Tail(list))

JSONstringify(list) == <<"[">> \o JoinNumbers(list) \o <<"]">>

RECURSIVE ParseNumber(_)
ParseNumber(ds) ==
  IF ds = <<>> THEN 0
  ELSE ParseNumber(SubSeq(ds, 1, Len(ds) - 1)) * 10
         + (IndexIn(DigitChars, ds[Len(ds)]) - 1)

RECURSIVE ParseItems(_)
ParseItems(cs) ==
  IF \E i \in 1..Len(cs) : cs[i] = ","
  THEN LET i == CHOOSE k \in 1..Len(cs) :
                  cs[k] = "," /\ \A j \in 1..(k - 1) : cs[j] # ","
       IN  <<ParseNumber(SubSeq(cs, 1, i - 1))>>
             \o ParseItems(SubSeq(cs, i + 1, Len(cs)))
  ELSE <<ParseNumber(cs)>>

JSONparse(text) ==
  LET inner == SubSeq(text, 2, Len(text) - 1)
  IN  IF inner = <<>> THEN <<>> ELSE ParseItems(inner)

\* localStorage.getItem(key): <<>> for null, <<text>> otherwise
getItem(store, key) ==
  IF \E e \in store : e[1] = key
  THEN <<(CHOOSE e \in store : e[1] = key)[2]>>
  ELSE <<>>

\* localStorage.setItem(key, text)
setItem(store, key, text) ==
  {e \in store : e[1] # key} \cup {<<key, text>>}

----------------------------------------------------------------------------
(* Data served by the two endpoints *)

TitlePool == << <<"q","u","i">>, <<"E","s","t">>, <<"a","b">>, <<"a"," ","B">> >>
BodyPool  == << <<"l","o","r">>, <<"N","o","1">>, <<"e","t">> >>

\* GET /posts item: ten posts per user, as the upstream API numbers them
RawPost(i) ==
  [id |-> i, userId |-> ((i - 1) \div 10) + 1,
   title |-> TitlePool[(i % Len(TitlePool)) + 1],
   body |-> BodyPool[(i % Len(BodyPool)) + 1]]

RawPosts(n) == [i \in 1..n |-> RawPost(i)]

\* GET /users items
RawUsers == << [id |-> 1, name |-> "Leanne Graham"], [id |-> 2, name |-> "Ervin Howell"] >>

\* a response body: an array of items, or something that is not an array
ArrayBody(items) == [isArray |-> TRUE, items |-> items]
MalformedBody == [isArray |-> FALSE, items |-> <<>>]

\* rejections of axios.get: with a response, with a request only, with neither
AxiosErrors ==
  { [response |-> <<[status |-> 404, statusText |-> "Not Found"]>>, request |-> TRUE],
    [response |-> <<[status |-> 500, statusText |-> "Internal Server Error"]>>, request |-> TRUE],
    [response |-> <<>>, request |-> TRUE],
    [response |-> <<>>, request |-> FALSE] }

\* the TypeError thrown by .map / .find on a body that is not an array
TypeError == [response |-> <<>>, request |-> FALSE]

----------------------------------------------------------------------------
(* Post enrichment *)

DaysInMonth == <<31, 28, 31, 30, 31, 30, 31, 31, 30, 31, 30, 31>>

\* new Date(year, monthIndex, day) for 0 <= monthIndex <= 11 and 0 <= day <= 28:
\* day 0 is the last day of the month before
NewDate(year, monthIndex, day) ==
  IF day >= 1 THEN [year |-> year, month |-> monthIndex, day |-> day]
  ELSE IF monthIndex = 0 THEN [year |-> year - 1, month |-> 11, day |-> 31]
  ELSE [year |-> year, month |-> monthIndex - 1, day |-> DaysInMonth[monthIndex]]

\* Array.prototype.find on the users: <<>> is undefined
find(users, userId) ==
  IF \E i \in 1..Len(users) : users[i].id = userId
  THEN <<users[CHOOSE i \in 1..Len(users) :
                  users[i].id = userId /\ \A j \in 1..(i - 1) : users[j].id # userId]>>
  ELSE <<>>

TagVocabulary == <<"tech", "business", "health">>

\* slice(0, n) in place of slice(n)
tagsOfFirstN(id) == slice(TagVocabulary, 0, id % 3)

tagsOf(id) == slice(TagVocabulary, id % 3, Len(TagVocabulary))

enrich(post, users) ==
  [id |-> post.id, userId |-> post.userId, title |-> post.title, body |-> post.body,
   user |-> find(users, post.userId),
   date |-> NewDate(2023, post.id % 12, post.id % 28),
   tags |-> tagsOf(post.id)]

postsWithUsers(posts, users) == [i \in 1..Len(posts) |-> enrich(posts[i], users)]

----------------------------------------------------------------------------
(* Derived list pipeline (the useMemo block) *)

\* the search string compared without lower-casing it
matchesSearchAsTyped(post, search) ==
  \/ includes(toLowerCase(post.title), search)
  \/ includes(toLowerCase(post.body), search)
  \/ toString(post.userId) = search

matches(post, search) ==
  \/ includes(toLowerCase(post.title), toLowerCase(search))
  \/ includes(toLowerCase(post.body), toLowerCase(search))
  \/ toString(post.userId) = search

filtered(posts, search) == SelectSeq(posts, LAMBDA post : matches(post, search))

\* String.prototype.localeCompare on space, digits and basic Latin letters:
\* letters compare without case first, then lower case before upper case
CollationOrder == <<" ">> \o DigitChars \o LowerChars

WeightOf == [c \in Range(CollationOrder) |-> IndexIn(CollationOrder, c)]

PrimaryWeight(c) == WeightOf[ToLowerChar(c)]

RECURSIVE ComparePrimary(_, _)
ComparePrimary(a, b) ==
  IF a = <<>> /\ b = <<>> THEN 0
  ELSE IF a = <<>> THEN -1
  ELSE IF b = <<>> THEN 1
  ELSE IF PrimaryWeight(a[1]) < PrimaryWeight(b[1]) THEN -1
  ELSE IF PrimaryWeight(a[1]) > PrimaryWeight(b[1]) THEN 1
  ELSE ComparePrimary(Tail(a), Tail(b))

CompareCase(a, b) ==
  IF a = b THEN 0
  ELSE LET i == CHOOSE k \in 1..Len(a) :
                  a[k] # b[k] /\ \A j \in 1..(k - 1) : a[j] = b[j]
       IN  IF a[i] \in LowerSet THEN -1 ELSE 1

localeCompare(a, b) ==
  LET p == ComparePrimary(a, b) IN IF p # 0 THEN p ELSE CompareCase(a, b)

\* the comparator with the titles the wrong way round
compareTitlesReversed(a, b, sortBy) ==
  IF sortBy = "newest" THEN b.id - a.id
  ELSE IF sortBy = "oldest" THEN a.id - b.id
  ELSE localeCompare(b.title, a.title)

\* the comparator handed to sort
compare(a, b, sortBy) ==
  IF sortBy = "newest" THEN b.id - a.id
  ELSE IF sortBy = "oldest" THEN a.id - b.id
  ELSE localeCompare(a.title, b.title)

\* Array.prototype.sort is stable: x goes before the first element that compares after it
InsertOrdered(x, sorted, sortBy) ==
  LET later == {j \in 1..Len(sorted) : compare(sorted[j], x, sortBy) > 0}
      k     == IF later = {} THEN Len(sorted) + 1
               ELSE CHOOSE j \in later : \A l \in later : j <= l
  IN  SubSeq(sorted, 1, k - 1) \o <<x>> \o SubSeq(sorted, k, Len(sorted))

RECURSIVE sort(_, _)
sort(arr, sortBy) ==
  IF arr = <<>> THEN <<>>
  ELSE InsertOrdered(arr[Len(arr)], sort(SubSeq(arr, 1, Len(arr) - 1), sortBy), sortBy)

Pipeline(st, search) ==
  LET sorted == sort(filtered(st.posts, search), st.sortBy)
      indexOfLastPost == st.currentPage * st.postsPerPage
      indexOfFirstPost == indexOfLastPost - st.postsPerPage
  IN  [filteredPosts |-> sorted,
       pageCount |-> MathCeilDiv(Len(sorted), st.postsPerPage),
       currentPosts |-> slice(sorted, indexOfFirstPost, indexOfLastPost)]

\* the dependency list of useMemo
memoDeps(st, search) == <<st.posts, search, st.sortBy, st.currentPage, st.postsPerPage>>

\* the first render: the snapshot the handlers close over and the pipeline's result
FirstRender(st, search) == [state |-> st, memo |-> Pipeline(st, search)]

\* a re-render: useMemo keeps its result unless a dependency changed
Render(st, search) ==
  [state |-> st,
   memo |-> IF memoDeps(st, search) = memoDeps(render.state, debouncedSearch)
            THEN render.memo
            ELSE Pipeline(st, search)]

----------------------------------------------------------------------------
(* Inputs the environment may supply *)

\* search texts typed in Spec: everything, the posts of user 1, nothing
SearchInputs == { <<>>, <<"1">>, <<"z">> }

\* the cards whose buttons are clicked in Spec
ClickIds == {1, 2}

PostsBodies == { ArrayBody(RawPosts(NumPosts)), ArrayBody(<<>>), MalformedBody }
UsersBodies == { ArrayBody(RawUsers), MalformedBody }

\* what an earlier session may have left under the key 'favorites'
InitialStorage ==
  { {}, {<<"favorites", JSONstringify(<<>>)>>}, {<<"favorites", JSONstringify(<<2, 10>>)>>} }

SortOptions == {"newest", "oldest", "alphabetical"}

----------------------------------------------------------------------------
(* The view-state store *)

\* JSON.parse(localStorage.getItem('favorites')) || []
initialFavorites(store) ==
  LET item == getItem(store, "favorites")
  IN  IF item = <<>> THEN <<>> ELSE JSONparse(item[1])

InitialState(store) ==
  [posts |-> <<>>, loading |-> TRUE, error |-> <<>>, searchQuery |-> <<>>,
   currentPage |-> 1, postsPerPage |-> postsPerPage, sortBy |-> "newest",
   selectedPost |-> <<>>, favorites |-> initialFavorites(store),
   snackbarOpen |-> FALSE, snackbarMessage |-> "", darkMode |-> FALSE,
   anchorEl |-> <<>>, deleteCandidate |-> <<>>]

\* the request test placed before the response test
handleErrorRequestFirst(s, err) ==
  LET errorMsg ==
        IF err.request THEN <<"Server is not responding">>
        ELSE IF err.response # <<>>
        THEN <<"Error: ">> \o toString(err.response[1].status)
               \o <<" ", err.response[1].statusText>>
        ELSE <<"Failed to fetch posts.">>
  IN  [s EXCEPT !.error = errorMsg]

handleError(s, err) ==
  LET errorMsg ==
        IF err.response # <<>>
        THEN <<"Error: ">> \o toString(err.response[1].status)
               \o <<" ", err.response[1].statusText>>
        ELSE IF err.request THEN <<"Server is not responding">>
        ELSE <<"Failed to fetch posts.">>
  IN  [s EXCEPT !.error = errorMsg]

\* the catch block without its setState of loading
catchLeavesLoading(s, err) == handleError(s, err)

\* the catch block of fetchData
catch(s, err) == [handleError(s, err) EXCEPT !.loading = FALSE]

\* the try block with loading left out of its setState
afterJoinKeepsLoading(s, postsBody, usersBody) ==
  IF ~postsBody.isArray \/ (postsBody.items # <<>> /\ ~usersBody.isArray)
  THEN catch(s, TypeError)
  ELSE [s EXCEPT !.posts = postsWithUsers(postsBody.items, usersBody.items)]

\* the try block of fetchData after Promise.all has fulfilled
afterJoin(s, postsBody, usersBody) ==
  IF ~postsBody.isArray \/ (postsBody.items # <<>> /\ ~usersBody.isArray)
  THEN catch(s, TypeError)
  ELSE [s EXCEPT !.posts = postsWithUsers(postsBody.items, usersBody.items),
                 !.loading = FALSE]

\* a toggle that only ever adds
newFavoritesAppendOnly(favorites, postId) == Append(favorites, postId)

newFavorites(favorites, postId) ==
  IF arrayIncludes(favorites, postId)
  THEN SelectSeq(favorites, LAMBDA id : id # postId)
  ELSE Append(favorites, postId)

\* the list persisted before the toggle is applied
persistedBeforeToggle(favorites, postId) == JSONstringify(favorites)

\* the text handed to localStorage.setItem
persisted(favorites, postId) == JSONstringify(newFavorites(favorites, postId))

\* one message for both directions of the toggle
toggleMessageAlwaysAdded(favorites, postId) == "Added to favorites"

toggleMessage(favorites, postId) ==
  IF arrayIncludes(favorites, postId) THEN "Removed from favorites"
  ELSE "Added to favorites"

\* a delete that also drops the post from the favorites
handleDeleteDroppingFavorite(s, postId) ==
  [s EXCEPT !.posts = SelectSeq(s.posts, LAMBDA post : post.id # postId),
            !.favorites = SelectSeq(s.favorites, LAMBDA id : id # postId),
            !.snackbarOpen = TRUE,
            !.snackbarMessage = "Post deleted successfully",
            !.deleteCandidate = <<>>]

\* the filter comparing the wrong field
handleDeleteByUserId(s, postId) ==
  [s EXCEPT !.posts = SelectSeq(s.posts, LAMBDA post : post.userId # postId),
            !.snackbarOpen = TRUE,
            !.snackbarMessage = "Post deleted successfully",
            !.deleteCandidate = <<>>]

handleDelete(s, postId) ==
  [s EXCEPT !.posts = SelectSeq(s.posts, LAMBDA post : post.id # postId),
            !.snackbarOpen = TRUE,
            !.snackbarMessage = "Post deleted successfully",
            !.deleteCandidate = <<>>]

----------------------------------------------------------------------------
(* What the last render put on screen *)

MenuOpen == render.state.anchorEl # <<>>
DialogOpen == render.state.deleteCandidate # <<>>

\* a page that takes input behind an open Menu or Dialog
PageAlwaysInteractive == TRUE

\* Menu and Dialog are modal: the page behind an open one takes no input
PageInteractive == ~MenuOpen /\ ~DialogOpen

\* the card grid is rendered (not the skeletons, not the empty notice)
GridShown == ~render.state.loading /\ render.memo.filteredPosts # <<>>

CardShown(postId) ==
  /\ PageInteractive
  /\ GridShown
  /\ \E i \in 1..Len(render.memo.currentPosts) : render.memo.currentPosts[i].id = postId

ShownPost(postId) ==
  render.memo.currentPosts[CHOOSE i \in 1..Len(render.memo.currentPosts) :
                              render.memo.currentPosts[i].id = postId]

----------------------------------------------------------------------------
(* Initial state: the component has mounted and issued both requests *)

Init ==
  /\ localStorage \in InitialStorage
  /\ state = InitialState(localStorage)
  /\ debouncedSearch = <<>>
  /\ debouncePending = FALSE
  /\ fetch = [posts |-> "pending", users |-> "pending", postsBody |-> <<>>, usersBody |-> <<>>]
  /\ render = FirstRender(state, debouncedSearch)
  /\ lastToggle = <<>>

----------------------------------------------------------------------------
(* The load: Promise.all over the two requests *)

PostsFulfilled(body) ==
  /\ fetch.posts = "pending"
  /\ fetch' = [fetch EXCEPT !.posts = "ok", !.postsBody = <<body>>]
  /\ state' = IF fetch.users = "ok" THEN afterJoin(state, body, fetch.usersBody[1])
              ELSE state
  /\ UNCHANGED <<localStorage, debouncedSearch, debouncePending, lastToggle>>
  /\ render' = Render(state', debouncedSearch')

UsersFulfilled(body) ==
  /\ fetch.users = "pending"
  /\ fetch' = [fetch EXCEPT !.users = "ok", !.usersBody = <<body>>]
  /\ state' = IF fetch.posts = "ok" THEN afterJoin(state, fetch.postsBody[1], body)
              ELSE state
  /\ UNCHANGED <<localStorage, debouncedSearch, debouncePending, lastToggle>>
  /\ render' = Render(state', debouncedSearch')

\* Promise.all rejects with the first rejection; a later one is dropped
PostsRejected(err) ==
  /\ fetch.posts = "pending"
  /\ fetch' = [fetch EXCEPT !.posts = "fail"]
  /\ state' = IF fetch.users # "fail" THEN catch(state, err) ELSE state
  /\ UNCHANGED <<localStorage, debouncedSearch, debouncePending, lastToggle>>
  /\ render' = Render(state', debouncedSearch')

UsersRejected(err) ==
  /\ fetch.users = "pending"
  /\ fetch' = [fetch EXCEPT !.users = "fail"]
  /\ state' = IF fetch.posts # "fail" THEN catch(state, err) ELSE state
  /\ UNCHANGED <<localStorage, debouncedSearch, debouncePending, lastToggle>>
  /\ render' = Render(state', debouncedSearch')

----------------------------------------------------------------------------
(* Search box and debounce timer *)

\* an edit that reaches the filter at once
SearchChangeUndebounced(text) ==
  /\ PageInteractive
  /\ text # render.state.searchQuery
  /\ state' = [state EXCEPT !.searchQuery = text, !.currentPage = 1]
  /\ debouncedSearch' = text
  /\ debouncePending' = FALSE
  /\ UNCHANGED <<localStorage, fetch, lastToggle>>
  /\ render' = Render(state', debouncedSearch')

SearchChange(text) ==
  /\ PageInteractive
  /\ text # render.state.searchQuery
  /\ state' = [state EXCEPT !.searchQuery = text, !.currentPage = 1]
  /\ debouncePending' = TRUE
  /\ UNCHANGED <<localStorage, debouncedSearch, fetch, lastToggle>>
  /\ render' = Render(state', debouncedSearch')

DebounceFire ==
  /\ debouncePending
  /\ debouncedSearch' = state.searchQuery
  /\ debouncePending' = FALSE
  /\ UNCHANGED <<state, localStorage, fetch, lastToggle>>
  /\ render' = Render(state', debouncedSearch')

----------------------------------------------------------------------------
(* Sort menu *)

OpenSortMenu ==
  /\ PageInteractive
  /\ state' = [state EXCEPT !.anchorEl = <<"sortButton">>]
  /\ UNCHANGED <<localStorage, debouncedSearch, debouncePending, fetch, lastToggle>>
  /\ render' = Render(state', debouncedSearch')

CloseSortMenu ==
  /\ MenuOpen
  /\ state' = [state EXCEPT !.anchorEl = <<>>]
  /\ UNCHANGED <<localStorage, debouncedSearch, debouncePending, fetch, lastToggle>>
  /\ render' = Render(state', debouncedSearch')

\* a pick that leaves the menu open
PickSortKeepingMenuOpen(option) ==
  /\ MenuOpen
  /\ state' = [state EXCEPT !.sortBy = option]
  /\ UNCHANGED <<localStorage, debouncedSearch, debouncePending, fetch, lastToggle>>
  /\ render' = Render(state', debouncedSearch')

PickSort(option) ==
  /\ MenuOpen
  /\ state' = [state EXCEPT !.sortBy = option, !.anchorEl = <<>>]
  /\ UNCHANGED <<localStorage, debouncedSearch, debouncePending, fetch, lastToggle>>
  /\ render' = Render(state', debouncedSearch')

----------------------------------------------------------------------------
(* Pagination control *)

ChangePage(page) ==
  /\ PageInteractive
  /\ GridShown
  /\ page \in 1..render.memo.pageCount
  /\ state' = [state EXCEPT !.currentPage = page]
  /\ UNCHANGED <<localStorage, debouncedSearch, debouncePending, fetch, lastToggle>>
  /\ render' = Render(state', debouncedSearch')

----------------------------------------------------------------------------
(* Card buttons *)

\* history of toggles: the post toggled and the favorites membership before the call,
\* and the same two facts about the call before it (prevId = 0: there was none)
ToggleRecord(postId) ==
  [id |-> postId, before |-> Range(state.favorites),
   prevId |-> IF lastToggle = <<>> THEN 0 ELSE lastToggle[1].id,
   prevBefore |-> IF lastToggle = <<>> THEN {} ELSE lastToggle[1].before]

ToggleFavorite(postId) ==
  /\ CardShown(postId)
  /\ localStorage' = setItem(localStorage, "favorites",
                             persisted(render.state.favorites, postId))
  /\ state' = [state EXCEPT
                 !.favorites = newFavorites(render.state.favorites, postId),
                 !.snackbarOpen = TRUE,
                 !.snackbarMessage = toggleMessage(render.state.favorites, postId)]
  /\ lastToggle' = <<ToggleRecord(postId)>>
  /\ UNCHANGED <<debouncedSearch, debouncePending, fetch>>
  /\ render' = Render(state', debouncedSearch')

Share(postId) ==
  /\ CardShown(postId)
  /\ state' = [state EXCEPT !.snackbarOpen = TRUE,
                            !.snackbarMessage = "Link copied to clipboard"]
  /\ UNCHANGED <<localStorage, debouncedSearch, debouncePending, fetch, lastToggle>>
  /\ render' = Render(state', debouncedSearch')

ClickDelete(postId) ==
  /\ CardShown(postId)
  /\ state' = [state EXCEPT !.deleteCandidate = <<ShownPost(postId)>>]
  /\ UNCHANGED <<localStorage, debouncedSearch, debouncePending, fetch, lastToggle>>
  /\ render' = Render(state', debouncedSearch')

----------------------------------------------------------------------------
(* Delete-confirmation dialog *)

\* a cancel that also dismisses the snackbar
CancelDeleteClosingSnackbar ==
  /\ DialogOpen
  /\ state' = [state EXCEPT !.deleteCandidate = <<>>, !.snackbarOpen = FALSE]
  /\ UNCHANGED <<localStorage, debouncedSearch, debouncePending, fetch, lastToggle>>
  /\ render' = Render(state', debouncedSearch')

\* Dialog onClose and the Cancel button
CancelDelete ==
  /\ DialogOpen
  /\ state' = [state EXCEPT !.deleteCandidate = <<>>]
  /\ UNCHANGED <<localStorage, debouncedSearch, debouncePending, fetch, lastToggle>>
  /\ render' = Render(state', debouncedSearch')

ConfirmDelete ==
  /\ DialogOpen
  /\ state' = handleDelete(state, render.state.deleteCandidate[1].id)
  /\ UNCHANGED <<localStorage, debouncedSearch, debouncePending, fetch, lastToggle>>
  /\ render' = Render(state', debouncedSearch')

----------------------------------------------------------------------------
(* Snackbar: auto-hide timer, click-away and the close button *)

SnackbarClose ==
  /\ render.state.snackbarOpen
  /\ state' = [state EXCEPT !.snackbarOpen = FALSE]
  /\ UNCHANGED <<localStorage, debouncedSearch, debouncePending, fetch, lastToggle>>
  /\ render' = Render(state', debouncedSearch')

----------------------------------------------------------------------------

Next ==
  \/ \E body \in PostsBodies : PostsFulfilled(body)
  \/ \E body \in UsersBodies : UsersFulfilled(body)
  \/ \E err \in AxiosErrors : PostsRejected(err)
  \/ \E err \in AxiosErrors : UsersRejected(err)
  \/ \E text \in SearchInputs : SearchChange(text)
  \/ DebounceFire
  \/ OpenSortMenu
  \/ CloseSortMenu
  \/ \E option \in SortOptions : PickSort(option)
  \/ \E page \in 1..(NumPosts + 1) : ChangePage(page)
  \/ \E postId \in ClickIds : ToggleFavorite(postId)
  \/ \E postId \in ClickIds : Share(postId)
  \/ \E postId \in ClickIds : ClickDelete(postId)
  \/ CancelDelete
  \/ ConfirmDelete
  \/ SnackbarClose

Spec == Init /\ [][Next]_vars

----------------------------------------------------------------------------
(* The derived pipeline over arbitrary loaded lists: the component after a *)
(* successful load of any short list of posts, or of a list of two or      *)
(* three pages, driven by the search box, the sort menu and the pager.     *)

PoolPosts ==
  { [id |-> 3, userId |-> 1,  title |-> <<"a","B">>, body |-> <<"b">>],
    [id |-> 4, userId |-> 11, title |-> <<"A","b">>, body |-> <<"a","1">>],
    [id |-> 5, userId |-> 2,  title |-> <<"b">>,     body |-> <<"B","1">>],
    [id |-> 7, userId |-> 1,  title |-> <<"a">>,     body |-> <<>>] }

RECURSIVE ListsUpTo(_)
ListsUpTo(n) ==
  IF n = 0 THEN { <<>> }
  ELSE LET shorter == ListsUpTo(n - 1)
       IN  shorter \cup
             { Append(l, post) : l \in {s \in shorter : Len(s) = n - 1},
                                 post \in PoolPosts }

UniqueIds(list) == \A i, j \in 1..Len(list) : list[i].id = list[j].id => i = j

LongCounts == { NumPosts, 2 * postsPerPage + 1 }

PipelineRawLists ==
  { l \in ListsUpTo(MaxListLen) : UniqueIds(l) } \cup { RawPosts(n) : n \in LongCounts }

PipelineSearchInputs ==
  { <<>>, <<"a">>, <<"B">>, <<"1">>, <<"1","1">>, <<"b","1">> }

InitPipeline ==
  /\ localStorage = {}
  /\ \E raw \in PipelineRawLists :
        /\ fetch = [posts |-> "ok", users |-> "ok",
                    postsBody |-> <<ArrayBody(raw)>>, usersBody |-> <<ArrayBody(RawUsers)>>]
        /\ state = afterJoin(InitialState(localStorage), ArrayBody(raw), ArrayBody(RawUsers))
  /\ debouncedSearch = <<>>
  /\ debouncePending = FALSE
  /\ render = FirstRender(state, debouncedSearch)
  /\ lastToggle = <<>>

NextPipeline ==
  \/ \E text \in PipelineSearchInputs : SearchChange(text)
  \/ DebounceFire
  \/ OpenSortMenu
  \/ CloseSortMenu
  \/ \E option \in SortOptions : PickSort(option)
  \/ \E page \in 1..(2 * postsPerPage + 1) : ChangePage(page)

\* the timeout callback of useDebounce runs: the DebounceFire step seen on
\* the timer's flag alone
TimeoutRuns == debouncePending /\ debouncePending' = FALSE

\* the pipeline with its timer: a pending timeout of useDebounce is run by
\* the event loop once no further edit restarts it
SpecDebounce ==
  InitPipeline /\ [][NextPipeline]_vars /\ WF_debouncePending(TimeoutRuns)

SpecPipeline == InitPipeline /\ [][NextPipeline]_vars

----------------------------------------------------------------------------
(* Vocabulary of the properties, stated without the operators of the pipeline *)

\* text contains s, ignoring case
ContainsIgnoringCase(text, s) ==
  \E k \in 0..(Len(text) - Len(s)) :
     \A j \in 1..Len(s) : ToLowerChar(text[k + j]) = ToLowerChar(s[j])

\* s is n written in decimal
IsDecimalOf(s, n) ==
  /\ s # <<>>
  /\ \A j \in 1..Len(s) : s[j] \in Range(DigitChars)
  /\ Len(s) > 1 => s[1] # "0"
  /\ ParseNumber(s) = n

PostMatches(post, s) ==
  \/ ContainsIgnoringCase(post.title, s)
  \/ ContainsIgnoringCase(post.body, s)
  \/ IsDecimalOf(s, post.userId)

\* number of posts of the store matching the debounced search string
MatchCount ==
  Cardinality({i \in 1..Len(state.posts) : PostMatches(state.posts[i], debouncedSearch)})

\* ceil(c / 12): the least k with 12 * k >= c
PagesFor(c) == CHOOSE k \in 0..c : 12 * k >= c /\ \A l \in 0..(k - 1) : 12 * l < c

LoadSucceeded ==
  /\ fetch.posts = "ok" /\ fetch.users = "ok"
  /\ ~state.loading /\ state.error = <<>>

\* the store still holds every post the load delivered
NothingDeleted ==
  /\ LoadSucceeded
  /\ state.posts = postsWithUsers(fetch.postsBody[1].items, fetch.usersBody[1].items)

IsPermutation(a, b) ==
  /\ Len(a) = Len(b)
  /\ \A x \in Range(a) \cup Range(b) :
        Cardinality({i \in 1..Len(a) : a[i] = x}) = Cardinality({i \in 1..Len(b) : b[i] = x})

----------------------------------------------------------------------------
(* C1 *)

\* C1: after a successful load, under search edits, sort picks, page changes
\* and debounce firings in any order (no delete), the current page lies in
\* 1..pageCount, pageCount being the pages of the posts matching the
\* debounced search string (stated for the states with a matching post: with
\* none the pager is not rendered and pageCount is 0).
C1_PageWithinPageCount ==
  (NothingDeleted /\ MatchCount > 0) =>
     /\ 1 <= state.currentPage
     /\ state.currentPage <= PagesFor(MatchCount)

----------------------------------------------------------------------------
(* C2 *)

----------------------------------------------------------------------------
(* C3 *)

StorageMatchesFavorites ==
  /\ getItem(localStorage, "favorites") = <<JSONstringify(state.favorites)>>
  /\ JSONparse(getItem(localStorage, "favorites")[1]) = state.favorites

\* C3: from the first toggleFavorite on, the list stored under 'favorites'
\* is the in-memory favorites list; a step that is not a toggle changes
\* neither the stored entry nor the in-memory list.
C3_StorageMirrorsFavorites ==
  /\ [](lastToggle # <<>> => StorageMatchesFavorites)
  /\ [][lastToggle' = lastToggle =>
          (localStorage' = localStorage /\ state'.favorites = state.favorites)]_vars

\* a two-digit identifier stored and read back after a toggle and a later delete
C3_Witness ==
  /\ lastToggle # <<>>
  /\ state.favorites = <<2, 10, 1>>
  /\ StorageMatchesFavorites
  /\ state.snackbarMessage = "Post deleted successfully"

----------------------------------------------------------------------------
(* C4 *)

\* C4: whichever order the two fetches settle in: a failed fetch leaves the
\* post list empty, a non-empty error message and loading false; posts are
\* held only when both fetches succeeded, and then with an empty error.
C4_NoPartialLoad ==
  /\ (fetch.posts = "fail" \/ fetch.users = "fail") =>
        (state.posts = <<>> /\ state.error # <<>> /\ ~state.loading)
  /\ state.posts # <<>> =>
        (fetch.posts = "ok" /\ fetch.users = "ok" /\ state.error = <<>>)
  /\ ~(state.posts # <<>> /\ state.error # <<>>)

\* the posts arrived, the users request failed afterwards
C4_Witness ==
  /\ fetch.posts = "ok" /\ fetch.postsBody[1].items # <<>>
  /\ fetch.users = "fail"
  /\ state.error = <<"Server is not responding">>

----------------------------------------------------------------------------
(* C5 *)

\* C5: confirming the delete of candidate X removes the one post with X's
\* identifier and keeps every other post, unmodified and in order; the same
\* update clears the candidate and opens the snackbar with
\* 'Post deleted successfully'.
C5_ConfirmDeleteRemovesExactlyX ==
  [][ConfirmDelete =>
       LET X == state.deleteCandidate[1]
       IN  /\ \E i \in 1..Len(state.posts) :
                 /\ state.posts[i].id = X.id
                 /\ state'.posts = SubSeq(state.posts, 1, i - 1)
                                     \o SubSeq(state.posts, i + 1, Len(state.posts))
           /\ \A j \in 1..Len(state'.posts) : state'.posts[j].id # X.id
           /\ state'.deleteCandidate = <<>>
           /\ state'.snackbarOpen
           /\ state'.snackbarMessage = "Post deleted successfully"]_vars

\* post 2 was deleted from the middle of the list
C5_Witness ==
  /\ LoadSucceeded
  /\ Len(state.posts) = NumPosts - 1
  /\ \A i \in 1..Len(state.posts) : state.posts[i].id # 2
  /\ state.deleteCandidate = <<>>
  /\ state.snackbarOpen /\ state.snackbarMessage = "Post deleted successfully"

----------------------------------------------------------------------------
(* C6 *)

\* C6: when a confirmed delete leaves at most (currentPage - 1) * 12 matching
\* posts, the pipeline still yields its result: pageCount is the pages of
\* the remaining matches, the visible slice is empty, no error is set.
C6_DeleteEmptyingPage ==
  [][(ConfirmDelete /\ MatchCount' <= (state'.currentPage - 1) * 12) =>
       /\ render'.memo.pageCount = PagesFor(MatchCount')
       /\ render'.memo.currentPosts = <<>>
       /\ state'.error = <<>>]_vars

\* the last post of page 2 was deleted: page 2 of 1 shows nothing
C6_Witness ==
  /\ state.snackbarMessage = "Post deleted successfully"
  /\ state.currentPage = 2
  /\ MatchCount = 12
  /\ render.memo.pageCount = 1
  /\ render.memo.currentPosts = <<>>

----------------------------------------------------------------------------
(* C7 *)

\* C7 as claimed: every enriched post carries the first n tags of the
\* vocabulary, n = id mod 3.
C7_TagsAreFirstN ==
  \A i \in 1..Len(state.posts) :
     LET n == state.posts[i].id % 3
     IN  /\ state.posts[i].tags = SubSeq(TagVocabulary, 1, n)
         /\ Len(state.posts[i].tags) = n

\* C7 amended: every enriched post carries the vocabulary without its first
\* n tags, n = id mod 3, so 3 - (id mod 3) tags.
C7_TagsDropFirstN ==
  \A i \in 1..Len(state.posts) :
     LET n == state.posts[i].id % 3
     IN  /\ state.posts[i].tags = SubSeq(TagVocabulary, n + 1, 3)
         /\ Len(state.posts[i].tags) = 3 - n

\* the load delivered posts of all three residues
C7_Witness ==
  /\ LoadSucceeded
  /\ \A n \in 0..2 : \E i \in 1..Len(state.posts) : state.posts[i].id % 3 = n

----------------------------------------------------------------------------
(* C8 *)

\* C8: the filtered list holds exactly the posts whose title or body
\* contains the debounced search string ignoring case, or whose userId in
\* decimal is that string.
C8_FilterExact ==
  LET f == filtered(state.posts, debouncedSearch)
  IN  /\ \A i \in 1..Len(state.posts) :
            PostMatches(state.posts[i], debouncedSearch) <=> state.posts[i] \in Range(f)
      /\ Range(f) \subseteq Range(state.posts)
      /\ Len(f) = MatchCount
      /\ IsPermutation(render.memo.filteredPosts, f)

\* "11" selects the post of user 11 by identifier and leaves out the post of user 1
C8_Witness ==
  /\ debouncedSearch = <<"1", "1">>
  /\ Len(state.posts) = 2
  /\ Len(render.memo.filteredPosts) = 1
  /\ render.memo.filteredPosts[1].userId = 11
  /\ \E i \in 1..2 : state.posts[i].userId = 1

----------------------------------------------------------------------------
(* C9 *)

\* C9: the sorted list is a permutation of the filtered list, non-increasing
\* by identifier under 'newest', non-decreasing by identifier under 'oldest',
\* non-decreasing by title (in localeCompare order) under 'alphabetical';
\* the post list of the store stays the loaded one.
C9_SortedPermutation ==
  LET s == render.memo.filteredPosts
  IN  /\ IsPermutation(s, filtered(state.posts, debouncedSearch))
      /\ \A i \in 1..(Len(s) - 1) :
            /\ state.sortBy = "newest" => s[i].id >= s[i + 1].id
            /\ state.sortBy = "oldest" => s[i].id <= s[i + 1].id
            /\ state.sortBy = "alphabetical" =>
                  localeCompare(s[i].title, s[i + 1].title) <= 0
      /\ state.sortBy \in SortOptions
      /\ state.posts = postsWithUsers(fetch.postsBody[1].items, fetch.usersBody[1].items)

\* an alphabetical listing that reorders the store's list
C9_Witness ==
  /\ state.sortBy = "alphabetical"
  /\ Len(render.memo.filteredPosts) = 2
  /\ render.memo.filteredPosts[1] = state.posts[2]
  /\ render.memo.filteredPosts[2] = state.posts[1]

----------------------------------------------------------------------------
(* C10 *)

\* C10: pageCount is ceil(c / 12) for c matches, and on a page p of
\* 1..pageCount the visible slice is the run of the sorted list from index
\* (p - 1) * 12 up to p * 12 exclusive, of length min(12, c - (p - 1) * 12).
C10_PageSlice ==
  LET s == render.memo.filteredPosts
      c == Len(s)
      p == state.currentPage
      v == render.memo.currentPosts
  IN  /\ render.memo.pageCount = PagesFor(c)
      /\ (1 <= p /\ p <= PagesFor(c)) =>
            /\ Len(v) = Min(12, c - (p - 1) * 12)
            /\ \A i \in 1..Len(v) : v[i] = s[(p - 1) * 12 + i]

\* the third page of 25 posts holds the single last one
C10_Witness ==
  /\ Len(render.memo.filteredPosts) = 25
  /\ state.currentPage = 3
  /\ render.memo.pageCount = 3
  /\ Len(render.memo.currentPosts) = 1

----------------------------------------------------------------------------
(* C11 *)

BothSettled == fetch.posts # "pending" /\ fetch.users # "pending"

\* Promise.all is pending: nothing rejected and not both fulfilled
JoinPending ==
  /\ fetch.posts # "fail" /\ fetch.users # "fail"
  /\ ~(fetch.posts = "ok" /\ fetch.users = "ok")

\* C11 as claimed: loading is false only after both fetches have settled,
\* also when one fails while the other is still in flight (and, once
\* false, it stays false).
C11_LoadingUntilBothSettle == ~state.loading => BothSettled

\* C11 amended: loading is true exactly while the join of the two fetches
\* is pending; it becomes false when both have fulfilled or at the first
\* rejection, the other fetch possibly still in flight; once false it
\* never becomes true again.
C11_LoadingUntilJoinSettles ==
  /\ [](state.loading <=> JoinPending)
  /\ [][~state.loading => ~state'.loading]_vars

\* the posts request failed and loading ended while the users request is in flight
C11_Witness ==
  /\ fetch.posts = "fail"
  /\ fetch.users = "pending"
  /\ ~state.loading

----------------------------------------------------------------------------
(* C12 *)

\* msg is the message of the failure class of err
MessageFits(msg, err) ==
  IF err.response # <<>>
  THEN /\ \E a \in 1..Len(msg) : \E b \in a..Len(msg) :
             IsDecimalOf(SubSeq(msg, a, b), err.response[1].status)
       /\ err.response[1].statusText \in Range(msg)
  ELSE IF err.request THEN msg = <<"Server is not responding">>
  ELSE msg = <<"Failed to fetch posts.">>

\* C12: the rejection that fails the load sets the message of its class
\* (status code and status text; 'Server is not responding'; 'Failed to
\* fetch posts.'), an exception in the enrichment sets the generic one, and
\* a message once set is never cleared or replaced.
C12_ErrorMessageByClass ==
  /\ [][\A err \in AxiosErrors :
          ((PostsRejected(err) /\ fetch.users # "fail")
             \/ (UsersRejected(err) /\ fetch.posts # "fail"))
          => MessageFits(state'.error, err)]_vars
  /\ [][(state.error = <<>> /\ state'.error # <<>>
           /\ fetch'.posts = "ok" /\ fetch'.users = "ok")
          => state'.error = <<"Failed to fetch posts.">>]_vars
  /\ [][state.error # <<>> => state'.error = state.error]_vars

\* a 404 message still shown after a search edit and a sort pick
C12_Witness ==
  /\ state.error = <<"Error: ", "4", "0", "4", " ", "Not Found">>
  /\ state.searchQuery # <<>>
  /\ state.sortBy = "oldest"
  /\ BothSettled

----------------------------------------------------------------------------
(* C13 *)

\* everything but the named fields of the store is left as it was
StoreUnchangedExcept(fields) ==
  /\ \A f \in (DOMAIN state) \ fields : state'[f] = state[f]
  /\ localStorage' = localStorage
  /\ debouncedSearch' = debouncedSearch
  /\ debouncePending' = debouncePending
  /\ fetch' = fetch

\* C13: a click on a post's delete icon sets that post as the delete
\* candidate and changes nothing else; a cancel sets the candidate to null
\* and changes nothing else (posts, favorites, local storage, page, sort
\* mode, search text, snackbar).
C13_DeleteFlowFrame ==
  /\ [][\A postId \in ClickIds : ClickDelete(postId) =>
          /\ state'.deleteCandidate # <<>>
          /\ state'.deleteCandidate[1].id = postId
          /\ state'.deleteCandidate[1] \in Range(state.posts)
          /\ StoreUnchangedExcept({"deleteCandidate"})]_vars
  /\ [][CancelDelete =>
          /\ state'.deleteCandidate = <<>>
          /\ StoreUnchangedExcept({"deleteCandidate"})]_vars

\* post 1 is the candidate, picked on page 2 with a favorite stored and the snackbar open
C13_Witness ==
  /\ state.deleteCandidate # <<>>
  /\ state.deleteCandidate[1].id = 1
  /\ state.currentPage = 2
  /\ state.favorites # <<>>
  /\ state.snackbarOpen

----------------------------------------------------------------------------
(* C14 *)

\* the search text is edited
SearchEdited == \E text \in PipelineSearchInputs : SearchChange(text)

\* C14: the debounced string changes only when the timer fires, and then
\* takes the latest search text; an edit leaves it alone and (re)starts the
\* timer, so a value overwritten within a burst never reaches the filter;
\* with no timer pending the two strings are equal; once edits stop the
\* debounced string eventually equals the search text for good.
C14_DebounceCoalesces ==
  /\ [][debouncedSearch' # debouncedSearch =>
          /\ debouncePending /\ ~debouncePending'
          /\ state' = state
          /\ debouncedSearch' = state.searchQuery]_vars
  /\ [][state'.searchQuery # state.searchQuery =>
          debouncePending' /\ debouncedSearch' = debouncedSearch]_vars
  /\ [](~debouncePending => debouncedSearch = state.searchQuery)
  /\ [](render.memo = Pipeline(state, debouncedSearch))
  /\ ([]<><<SearchEdited>>_vars \/ <>[](debouncedSearch = state.searchQuery))

\* 'a' reached the filter earlier; a later edit to 'B' waits for its timer
C14_Witness ==
  /\ debouncePending
  /\ debouncedSearch = <<"a">>
  /\ state.searchQuery = <<"B">>

----------------------------------------------------------------------------
(* C15 *)

\* a favorite toggle, a share or a confirmed delete
MessageEvent ==
  \/ \E postId \in ClickIds : ToggleFavorite(postId) \/ Share(postId)
  \/ ConfirmDelete

\* C15: a favorite toggle, a share and a confirmed delete each open the
\* snackbar with their own message, whatever it showed before; the timeout
\* or a close sets it closed; it opens, and its message changes, by a
\* message-producing event only, and it closes by the timeout or a close
\* only.
C15_SnackbarSingleSlot ==
  /\ [][\A postId \in ClickIds : ToggleFavorite(postId) =>
          /\ state'.snackbarOpen
          /\ state'.snackbarMessage =
               IF postId \in Range(state.favorites)
               THEN "Removed from favorites" ELSE "Added to favorites"]_vars
  /\ [][\A postId \in ClickIds : Share(postId) =>
          /\ state'.snackbarOpen
          /\ state'.snackbarMessage = "Link copied to clipboard"]_vars
  /\ [][ConfirmDelete =>
          /\ state'.snackbarOpen
          /\ state'.snackbarMessage = "Post deleted successfully"]_vars
  /\ [][SnackbarClose => ~state'.snackbarOpen]_vars
  /\ [][(~state.snackbarOpen /\ state'.snackbarOpen) => MessageEvent]_vars
  /\ [][state'.snackbarMessage # state.snackbarMessage => MessageEvent]_vars
  /\ [][(state.snackbarOpen /\ ~state'.snackbarOpen) => SnackbarClose]_vars

\* the delete message shown after an earlier toggle's message
C15_Witness ==
  /\ state.snackbarOpen
  /\ state.snackbarMessage = "Post deleted successfully"
  /\ lastToggle # <<>>

----------------------------------------------------------------------------
(* C16 *)

SortPicked == \E option \in SortOptions : PickSort(option)

\* C16: the sort mode starts as newest and is always one of newest, oldest,
\* alphabetical; a sort-icon click opens the closed menu, an outside click
\* closes the open menu and keeps the sort mode, an option pick closes it
\* and sets the sort mode to the option in the same update; nothing else
\* moves the menu or the sort mode.
C16_SortMenuMachine ==
  /\ state.sortBy = "newest"
  /\ [](state.sortBy \in {"newest", "oldest", "alphabetical"})
  /\ [][OpenSortMenu =>
          /\ state.anchorEl = <<>> /\ state'.anchorEl # <<>>
          /\ state'.sortBy = state.sortBy]_vars
  /\ [][CloseSortMenu =>
          /\ state.anchorEl # <<>> /\ state'.anchorEl = <<>>
          /\ state'.sortBy = state.sortBy]_vars
  /\ [][\A option \in {"newest", "oldest", "alphabetical"} : PickSort(option) =>
          /\ state.anchorEl # <<>> /\ state'.anchorEl = <<>>
          /\ state'.sortBy = option]_vars
  /\ [][state'.anchorEl # state.anchorEl =>
          OpenSortMenu \/ CloseSortMenu \/ SortPicked]_vars
  /\ [][state'.sortBy # state.sortBy => SortPicked]_vars

\* alphabetical was picked and the menu closed with it
C16_Witness ==
  /\ state.anchorEl = <<>>
  /\ state.sortBy = "alphabetical"

----------------------------------------------------------------------------
(* C17 *)

----------------------------------------------------------------------------
(* C18 *)

\* C18: a confirmed delete leaves favorites and the stored 'favorites'
\* entry as they were; the id of a deleted favorite stays in favorites
\* while no post with that id remains.
C18_DeleteKeepsFavorites ==
  [][ConfirmDelete =>
       LET X == state.deleteCandidate[1].id
       IN  /\ state'.favorites = state.favorites
           /\ localStorage' = localStorage
           /\ getItem(localStorage', "favorites") = getItem(localStorage, "favorites")
           /\ X \in Range(state.favorites) =>
                /\ X \in Range(state'.favorites)
                /\ \A post \in Range(state'.posts) : post.id # X]_vars

\* post 2 was made a favorite and then deleted: its id is in favorites and in
\* the stored list, and the other posts are still there
C18_Witness ==
  /\ lastToggle # <<>> /\ lastToggle[1].id = 2
  /\ 2 \in Range(state.favorites)
  /\ getItem(localStorage, "favorites") = <<JSONstringify(state.favorites)>>
  /\ Len(state.posts) = NumPosts - 1
  /\ \A post \in Range(state.posts) : post.id # 2

====
